---- MODULE Spec2Model ----
(***************************************************************************)
(* A model of LouiEriksson::Hashmap<int, Tv> (src/Hashmap.hpp): a          *)
(* separate-chaining hash table, a vector of buckets, each a vector of     *)
(* key/value pairs, guarded by one static recursive mutex.                 *)
(*                                                                         *)
(* The table is the pair (m_Buckets, m_Size).  Bucket i of the source is   *)
(* m_Buckets[i + 1] here (TLA+ sequences start at 1).  Keys are small      *)
(* naturals hashed by std::hash<int>, the identity; values are 1..MaxVal.  *)
(***************************************************************************)
EXTENDS Integers, Sequences, FiniteSets, TLC

\* ---------------------------------------------------------------- bounds
MaxKey == 3
MaxVal == 2
MaxCap == 4
MaxOps == 4
MaxInitCap == 3

Tk == 0..MaxKey
Tv == 1..MaxVal

\* std::nullopt of optional_ref, and "no result" of a void operation
NoValue == 0

\* size_t arithmetic wraps; the width is scaled down to what TLC can count
SizeBits == 16
SizeMod  == 2 ^ SizeBits

VARIABLES
    m_Buckets,   \* std::vector<std::vector<KeyValuePair>>
    m_Size,      \* size_t m_Size
    ub,          \* the execution has left defined behaviour; nothing after it is modelled
    last,        \* the last completed call: name, arguments, result, pre-state
    prev,        \* the call completed before it, when it had the same key
    nOps,        \* number of calls made so far
    adds,        \* number of Add calls that returned true
    removes,     \* number of Remove calls that returned true
    churn        \* steps of the churn loop followed so far, -1 once left

VARIABLES
    s_Lock,      \* std::recursive_mutex s_Lock: the owning thread and its lock count
    pc,          \* where each thread is: outside a call, or at a point inside one
    frame,       \* the call each thread is executing: arguments, locals, result
    ref,         \* the reference a call returned to its caller (size(), Get())
    obs,         \* what each thread last read through such a reference
    ret,         \* the call each thread completed last, and whether it threw
    prog         \* the writer's and the reader's position in their loops

cntvars  == <<adds, removes, churn>>
histvars == <<last, prev>>
thrvars  == <<s_Lock, pc, frame, ref, obs, ret, prog>>
vars     == <<m_Buckets, m_Size, ub, last, prev, nOps, adds, removes, churn,
              s_Lock, pc, frame, ref, obs, ret, prog>>

\* ------------------------------------------------------- pure operations

\* GetHashcode: std::hash<int> is the identity cast to size_t
GetHashcode(k) == k

KeyValuePair(k, v) == [first |-> k, second |-> v]

Table(b, s) == [b |-> b, s |-> s]

\* the bucket a key is addressed to: hash % m_Buckets.size(), 0-based
BucketIndex(k, b) == GetHashcode(k) % Len(b)

\* position (1-based) of the first entry of the bucket whose hash matches, 0 if none
RECURSIVE FindFrom(_, _, _)
FindFrom(bucket, hash, j) ==
    IF j > Len(bucket) THEN 0
    ELSE IF GetHashcode(bucket[j].first) = hash THEN j
    ELSE FindFrom(bucket, hash, j + 1)

Find(bucket, hash) == FindFrom(bucket, hash, 1)

\* all entries in bucket-then-chain order
RECURSIVE Flatten(_)
Flatten(b) == IF b = <<>> THEN <<>> ELSE Head(b) \o Flatten(Tail(b))

\* vector::erase of the element at position j (1-based)
EraseAt(s, j) == SubSeq(s, 1, j - 1) \o SubSeq(s, j + 1, Len(s))

\* a vector of n empty buckets: m_Buckets.resize(n) on an empty vector
RECURSIVE EmptyBuckets(_)
EmptyBuckets(n) == IF n = 0 THEN <<>> ELSE Append(EmptyBuckets(n - 1), <<>>)

RECURSIVE ResizeT(_, _)
RECURSIVE AssignT(_, _, _)
RECURSIVE Reinsert(_, _)

\* the loop of Resize: Assign every entry of the copy into the table
Reinsert(es, t) ==
    IF es = <<>> THEN t
    ELSE Reinsert(Tail(es), AssignT(t, Head(es).first, Head(es).second))

\* Resize(_newSize)
ResizeT(t, newSize) ==
    LET shallow_cpy == t.b
        n  == IF newSize > 0 THEN newSize ELSE 1
        t0 == Table(EmptyBuckets(n), 0)
    IN  Reinsert(Flatten(shallow_cpy), t0)

\* if (m_Size >= m_Buckets.size()) Resize(m_Buckets.size() * 2U)
GrowIfFull(t) == IF t.s >= Len(t.b) THEN ResizeT(t, Len(t.b) * 2) ELSE t

\* Assign past the load check: replace the value in place, or append
AssignCore(t1, k, v) ==
    LET hash == GetHashcode(k)
        i    == BucketIndex(k, t1.b) + 1
        j    == Find(t1.b[i], hash)
    IN  IF j # 0
        THEN Table([t1.b EXCEPT ![i][j].second = v], t1.s)
        ELSE Table([t1.b EXCEPT ![i] = Append(@, KeyValuePair(k, v))],
                   (t1.s + 1) % SizeMod)

\* Assign(key, value)
AssignT(t, k, v) == AssignCore(GrowIfFull(t), k, v)

\* Add that replaces the value of a key already there
AddCore_Overwrites(t1, k, v) ==
    LET i == BucketIndex(k, t1.b) + 1
        j == Find(t1.b[i], GetHashcode(k))
    IN  IF j # 0
        THEN [t |-> Table([t1.b EXCEPT ![i][j].second = v], t1.s), res |-> FALSE]
        ELSE [t |-> Table([t1.b EXCEPT ![i] = Append(@, KeyValuePair(k, v))],
                          (t1.s + 1) % SizeMod),
              res |-> TRUE]

\* Add past the load check: the table afterwards and the boolean returned
AddCore(t1, k, v) ==
    LET hash == GetHashcode(k)
        i    == BucketIndex(k, t1.b) + 1
        j    == Find(t1.b[i], hash)
    IN  IF j # 0
        THEN [t |-> t1, res |-> FALSE]
        ELSE [t |-> Table([t1.b EXCEPT ![i] = Append(@, KeyValuePair(k, v))],
                          (t1.s + 1) % SizeMod),
              res |-> TRUE]

\* Add(key, value)
AddT(t, k, v) == AddCore(GrowIfFull(t), k, v)

\* Remove with the count decremented whether or not an entry was erased
RemoveT_AlwaysDecrements(t, k) ==
    LET hash == GetHashcode(k)
        i    == BucketIndex(k, t.b) + 1
        j    == Find(t.b[i], hash)
    IN  IF j # 0
        THEN [t |-> Table([t.b EXCEPT ![i] = EraseAt(@, j)], (t.s - 1) % SizeMod),
              res |-> TRUE]
        ELSE [t |-> Table(t.b, (t.s - 1) % SizeMod), res |-> FALSE]

\* Remove(key) on a table that has buckets
RemoveT(t, k) ==
    LET hash == GetHashcode(k)
        i    == BucketIndex(k, t.b) + 1
        j    == Find(t.b[i], hash)
    IN  IF j # 0
        THEN [t |-> Table([t.b EXCEPT ![i] = EraseAt(@, j)], (t.s - 1) % SizeMod),
              res |-> TRUE]
        ELSE [t |-> t, res |-> FALSE]

\* ContainsKey(key) on a table that has buckets
ContainsKeyT(t, k) ==
    Find(t.b[BucketIndex(k, t.b) + 1], GetHashcode(k)) # 0

\* Get(key): the value referred to by the optional_ref, NoValue for nullopt
GetT(t, k) ==
    IF Len(t.b) # 0
    THEN LET i == BucketIndex(k, t.b) + 1
             j == Find(t.b[i], GetHashcode(k))
         IN  IF j # 0 THEN t.b[i][j].second ELSE NoValue
    ELSE NoValue

\* Return with the throw left out
ReturnT_NeverThrows(t, k) == [throws |-> FALSE, value |-> GetT(t, k)]

\* Return(key): the value, or NoValue when it throws std::runtime_error
ReturnT(t, k) ==
    LET result == IF Len(t.b) # 0
                  THEN LET i == BucketIndex(k, t.b) + 1
                           j == Find(t.b[i], GetHashcode(k))
                       IN  IF j # 0 THEN t.b[i][j].second ELSE NoValue
                  ELSE NoValue
    IN  [throws |-> result = NoValue, value |-> result]

\* the loop of Trim: trimStart after scanning buckets i..size-1 (0-based i)
RECURSIVE TrimScan(_, _, _)
TrimScan(b, i, trimStart) ==
    IF i >= Len(b) THEN trimStart
    ELSE TrimScan(b, i + 1, IF Len(b[i + 1]) # 0 THEN i + 1 ELSE trimStart)

\* Trim(): m_Buckets.erase(m_Buckets.begin() + trimStart) erases ONE bucket
TrimT(t) ==
    LET trimStart == TrimScan(t.b, 1, 1)
    IN  IF trimStart < Len(t.b)
        THEN Table(EraseAt(t.b, trimStart + 1), t.s)
        ELSE t

\* Reserve(_newSize)
ReserveT(t, newSize) == IF t.s < newSize THEN ResizeT(t, newSize) ELSE t

\* Clear()
ClearT(t) == Table(<<>>, 0)

\* ------------------------------------------------------------ the state

Tbl == Table(m_Buckets, m_Size)

\* the key recorded for a call that takes none
NoKey == 0 - 1

Call(op, k, v, ok, out) ==
    [op |-> op, key |-> k, val |-> v, ok |-> ok, out |-> out,
     preB |-> m_Buckets, preS |-> m_Size]

NoCall == [op |-> "none", key |-> NoKey, val |-> NoValue, ok |-> FALSE,
           out |-> NoValue, preB |-> <<>>, preS |-> 0]

Summary(c) == [op |-> c.op, key |-> c.key, val |-> c.val, ok |-> c.ok, out |-> c.out]

\* a completed call that leaves the table as t
Complete(t, c) ==
    /\ Len(t.b) <= MaxCap
    /\ m_Buckets' = t.b
    /\ m_Size' = t.s
    /\ last' = c
    /\ prev' = IF last.key = c.key THEN Summary(last) ELSE Summary(NoCall)
    /\ nOps' = nOps + 1

Done(t, c) == Complete(t, c) /\ UNCHANGED ub

\* hash % m_Buckets.size() with no buckets divides by zero.  The build may
\* trap, and the call never returns ...
Trap ==
    /\ ub' = TRUE
    /\ UNCHANGED <<m_Buckets, m_Size, last, prev, nOps>>

\* ... or go on to scan whatever lies where a bucket would be, and return
Undefined(t, c) == Complete(t, c) /\ ub' = TRUE

CanCall == ~ub /\ nOps < MaxOps

\* ------------------------------------------------ threads and the lock

NThreads == 2
Threads  == 1..NThreads
NoThread == 0

NoFrame == [op |-> "none", key |-> NoKey, val |-> NoValue, work |-> <<>>,
            preB |-> <<>>, preS |-> 0, ok |-> FALSE, out |-> NoValue,
            snap |-> <<>>, threw |-> FALSE]

NoRef == [kind |-> "none", key |-> NoKey, bkt |-> 0, pos |-> 0,
          val |-> NoValue, valid |-> TRUE]

NoObs == [kind |-> "none", key |-> NoKey, value |-> 0, lo |-> 0, hi |-> 0]

NoRet == [op |-> "none", threw |-> FALSE]

NoProg == [w |-> 0, phase |-> "none", last_size |-> 0, i |-> 0]

InitThreads ==
    /\ s_Lock = [owner |-> NoThread, count |-> 0]
    /\ pc = [t \in Threads |-> "idle"]
    /\ frame = [t \in Threads |-> NoFrame]
    /\ ref = [t \in Threads |-> NoRef]
    /\ obs = [t \in Threads |-> NoObs]
    /\ ret = [t \in Threads |-> NoRet]

\* Hashmap(_capacity): _capacity "must be larger than 0"
InitTable ==
    /\ \E c \in 1..MaxInitCap : m_Buckets = EmptyBuckets(c)
    /\ m_Size = 0
    /\ ub = FALSE
    /\ last = NoCall
    /\ prev = Summary(NoCall)
    /\ nOps = 0

InitCount ==
    /\ adds = 0
    /\ removes = 0
    /\ churn = 0

Add(k, v) ==
    /\ CanCall
    /\ LET r == AddT(Tbl, k, v)
       IN  Done(r.t, Call("Add", k, v, r.res, NoValue))

Assign(k, v) ==
    /\ CanCall
    /\ Done(AssignT(Tbl, k, v), Call("Assign", k, v, TRUE, NoValue))

Remove(k) ==
    /\ CanCall
    /\ IF Len(m_Buckets) # 0
       THEN LET r == RemoveT(Tbl, k)
            IN  Done(r.t, Call("Remove", k, NoValue, r.res, NoValue))
       ELSE \/ Trap
            \/ \E found \in BOOLEAN :
                  Undefined(Table(m_Buckets, (m_Size - (IF found THEN 1 ELSE 0)) % SizeMod),
                            Call("Remove", k, NoValue, found, NoValue))

ContainsKey(k) ==
    /\ CanCall
    /\ IF Len(m_Buckets) # 0
       THEN Done(Tbl, Call("ContainsKey", k, NoValue, ContainsKeyT(Tbl, k), NoValue))
       ELSE \/ Trap
            \/ \E found \in BOOLEAN :
                  Undefined(Tbl, Call("ContainsKey", k, NoValue, found, NoValue))

Get(k) ==
    /\ CanCall
    /\ LET out == GetT(Tbl, k)
       IN  Done(Tbl, Call("Get", k, NoValue, out # NoValue, out))

\* operator[](key): ok is FALSE when std::runtime_error is thrown
Index(k) ==
    /\ CanCall
    /\ LET r == ReturnT(Tbl, k)
       IN  Done(Tbl, Call("Index", k, NoValue, ~r.throws, r.value))

Trim ==
    /\ CanCall
    /\ Done(TrimT(Tbl), Call("Trim", NoKey, NoValue, TRUE, NoValue))

\* Reserve(_newSize): the call records _newSize as its val
Reserve(n) ==
    /\ CanCall
    /\ Done(ReserveT(Tbl, n), Call("Reserve", NoKey, n, TRUE, NoValue))

Clear ==
    /\ CanCall
    /\ Done(ClearT(Tbl), Call("Clear", NoKey, NoValue, TRUE, NoValue))

\* ------------------------------------------- Spec: every operation, any order

Init == InitTable /\ InitCount /\ InitThreads /\ prog = NoProg

Next ==
    \/ \E k \in Tk, v \in Tv : Add(k, v) /\ UNCHANGED <<cntvars, thrvars>>
    \/ \E k \in Tk, v \in Tv : Assign(k, v) /\ UNCHANGED <<cntvars, thrvars>>
    \/ \E k \in Tk : Remove(k) /\ UNCHANGED <<cntvars, thrvars>>
    \/ \E k \in Tk : ContainsKey(k) /\ UNCHANGED <<cntvars, thrvars>>
    \/ \E k \in Tk : Get(k) /\ UNCHANGED <<cntvars, thrvars>>
    \/ \E k \in Tk : Index(k) /\ UNCHANGED <<cntvars, thrvars>>
    \/ Trim /\ UNCHANGED <<cntvars, thrvars>>
    \/ \E n \in 0..MaxCap : Reserve(n) /\ UNCHANGED <<cntvars, thrvars>>
    \/ Clear /\ UNCHANGED <<cntvars, thrvars>>

Spec == Init /\ [][Next]_vars

\* ------------------------ SpecFault: Resize with a fault while re-inserting

\* what a moved-from value holds: valid, but no longer the value stored
MovedFrom == MaxVal + 1

\* shallow_cpy once the loop of Resize has moved its first m entries out
RECURSIVE MovedOut(_, _)
MovedOut(es, m) ==
    IF es = <<>> \/ m = 0 THEN es
    ELSE <<KeyValuePair(Head(es).first, MovedFrom)>> \o MovedOut(Tail(es), m - 1)

RECURSIVE MovedOutOf(_, _)
MovedOutOf(b, m) ==
    IF b = <<>> THEN <<>>
    ELSE <<MovedOut(Head(b), m)>>
            \o MovedOutOf(Tail(b), IF m > Len(Head(b)) THEN m - Len(Head(b)) ELSE 0)

\* the table on which the f-th re-inserting Assign of Resize runs, past its
\* load check
BeforeFault(t, newSize, f) ==
    GrowIfFull(Reinsert(SubSeq(Flatten(t.b), 1, f - 1),
                        Table(EmptyBuckets(IF newSize > 0 THEN newSize ELSE 1), 0)))

\* that Assign gets as far as m_Size++; bucket.emplace_back(...), which throws
CanFault(t, newSize, f) ==
    LET e  == Flatten(t.b)[f]
        t1 == BeforeFault(t, newSize, f)
    IN  Find(t1.b[BucketIndex(e.first, t1.b) + 1], GetHashcode(e.first)) = 0

\* Resize(newSize) when that emplace_back throws std::bad_alloc: Assign hands
\* the exception back, Resize rethrows it and its handler runs
\* m_Buckets = shallow_cpy; moved says whether moving a Tv changes its source
ResizeFaultT(t, newSize, f, moved) ==
    Table(IF moved THEN MovedOutOf(t.b, f - 1) ELSE t.b,
          (BeforeFault(t, newSize, f).s + 1) % SizeMod)

\* Reserve(_newSize) with that fault; the call records in out which entry's
\* re-insertion faulted
ReserveFault(n, f, moved) ==
    /\ CanCall
    /\ m_Size < n
    /\ f \in 1..Len(Flatten(m_Buckets))
    /\ CanFault(Tbl, n, f)
    /\ Done(ResizeFaultT(Tbl, n, f, moved), Call("Reserve", NoKey, n, TRUE, f))

\* where a call faults: in GetHashcode(_key), or in creating or copying an
\* entry (bucket.emplace_back, kvp.second = _value)
HashFault == 1

EntryFault == 2

\* Add(key, value) when the statement named by at throws: control goes to
\* catch (...) with result still true
AddFaultT(t, k, v, at) ==
    LET t1 == GrowIfFull(t)
        i  == BucketIndex(k, t1.b) + 1
    IN  IF at = HashFault
        THEN [t |-> t1, res |-> TRUE]
        ELSE IF Find(t1.b[i], GetHashcode(k)) # 0
             THEN [t |-> t1, res |-> FALSE]
             ELSE [t |-> Table(t1.b, (t1.s + 1) % SizeMod), res |-> TRUE]

\* Assign(key, value) when the statement named by at throws
AssignFaultT(t, k, v, at) ==
    LET t1 == GrowIfFull(t)
        i  == BucketIndex(k, t1.b) + 1
    IN  IF at = HashFault \/ Find(t1.b[i], GetHashcode(k)) # 0
        THEN t1
        ELSE Table(t1.b, (t1.s + 1) % SizeMod)

\* Remove(key) and Get(key) when GetHashcode(_key) throws
RemoveFaultT(t, k) == [t |-> t, res |-> FALSE]

GetFaultT(t, k) == NoValue

\* the calls with a fault; each records in out where it faulted.  An Add that
\* finds the key never reaches emplace_back
AddFault(k, v, at) ==
    /\ CanCall
    /\ at = EntryFault => ~ContainsKeyT(GrowIfFull(Tbl), k)
    /\ LET r == AddFaultT(Tbl, k, v, at)
       IN  Done(r.t, Call("Add", k, v, r.res, at))

AssignFault(k, v, at) ==
    /\ CanCall
    /\ Done(AssignFaultT(Tbl, k, v, at), Call("Assign", k, v, TRUE, at))

RemoveFault(k) ==
    /\ CanCall
    /\ LET r == RemoveFaultT(Tbl, k)
       IN  Done(r.t, Call("Remove", k, NoValue, r.res, HashFault))

GetFault(k) ==
    /\ CanCall
    /\ Len(m_Buckets) # 0
    /\ Done(Tbl, Call("Get", k, NoValue, GetFaultT(Tbl, k) # NoValue, HashFault))

NextFault ==
    \/ Next
    \/ \E n \in 0..MaxCap, f \in 1..(MaxKey + 1), moved \in BOOLEAN :
          ReserveFault(n, f, moved) /\ UNCHANGED <<cntvars, thrvars>>
    \/ \E k \in Tk, v \in Tv, at \in {HashFault, EntryFault} :
          AddFault(k, v, at) /\ UNCHANGED <<cntvars, thrvars>>
    \/ \E k \in Tk, v \in Tv, at \in {HashFault, EntryFault} :
          AssignFault(k, v, at) /\ UNCHANGED <<cntvars, thrvars>>
    \/ \E k \in Tk : RemoveFault(k) /\ UNCHANGED <<cntvars, thrvars>>
    \/ \E k \in Tk : GetFault(k) /\ UNCHANGED <<cntvars, thrvars>>

SpecFault == Init /\ [][NextFault]_vars

\* ------------------- SpecDiag: the forms with a std::exception_ptr& parameter

\* what a call can come to: the table it leaves, its result, whether its
\* behaviour was undefined and whether it trapped, and (diagnostic forms) the
\* content of the caller's exception_ptr afterwards
Outcome(t, ok, out, e) ==
    [t |-> t, ok |-> ok, out |-> out, ub |-> FALSE, trap |-> FALSE, exception |-> e]

\* hash % m_Buckets.size() with no buckets: a trap, or a scan of whatever lies
\* where the bucket would be, which finds the hash or not
UndefinedOutcomes(t, dec, e) ==
    {[t |-> t, ok |-> FALSE, out |-> NoValue, ub |-> TRUE, trap |-> TRUE, exception |-> e]}
        \cup {[t |-> Table(t.b, (t.s - (IF found /\ dec THEN 1 ELSE 0)) % SizeMod),
               ok |-> found, out |-> NoValue, ub |-> TRUE, trap |-> FALSE,
               exception |-> e] : found \in BOOLEAN}

\* no fault
NoFault == 0

\* the faults a call of op can meet
FaultsOf(op) == IF op \in {"Add", "Assign"} THEN {HashFault, EntryFault} ELSE {HashFault}

\* ContainsKey(key, _exception)
ContainsKeyDiag(t, k, at, e) ==
    IF at = HashFault THEN {Outcome(t, FALSE, NoValue, at)}
    ELSE IF Len(t.b) = 0 THEN UndefinedOutcomes(t, FALSE, e)
    ELSE {Outcome(t, Find(t.b[BucketIndex(k, t.b) + 1], GetHashcode(k)) # 0, NoValue, e)}

\* Add(key, value, _exception) were it to return false on a fault
AddDiag_ReportsFailure(t, k, v, at, e) ==
    IF at = NoFault
    THEN {Outcome(AddT(t, k, v).t, AddT(t, k, v).res, NoValue, e)}
    ELSE {Outcome(AddFaultT(t, k, v, at).t, FALSE, NoValue, at)}

\* Add(key, value, _exception)
AddDiag(t, k, v, at, e) ==
    LET t1 == IF t.s >= Len(t.b) THEN ResizeT(t, Len(t.b) * 2) ELSE t
        i  == BucketIndex(k, t1.b) + 1
        j  == Find(t1.b[i], GetHashcode(k))
    IN  IF at = HashFault THEN {Outcome(t1, TRUE, NoValue, at)}
        ELSE IF j # 0 THEN {Outcome(t1, FALSE, NoValue, e)}
        ELSE IF at = EntryFault
             THEN {Outcome(Table(t1.b, (t1.s + 1) % SizeMod), TRUE, NoValue, at)}
             ELSE {Outcome(Table([t1.b EXCEPT ![i] = Append(@, KeyValuePair(k, v))],
                                 (t1.s + 1) % SizeMod), TRUE, NoValue, e)}

\* Assign(key, value, _exception)
AssignDiag(t, k, v, at, e) ==
    LET t1 == IF t.s >= Len(t.b) THEN ResizeT(t, Len(t.b) * 2) ELSE t
        i  == BucketIndex(k, t1.b) + 1
        j  == Find(t1.b[i], GetHashcode(k))
    IN  IF at = HashFault THEN {Outcome(t1, TRUE, NoValue, at)}
        ELSE IF j # 0
             THEN IF at = EntryFault
                  THEN {Outcome(t1, TRUE, NoValue, at)}
                  ELSE {Outcome(Table([t1.b EXCEPT ![i][j].second = v], t1.s),
                                TRUE, NoValue, e)}
             ELSE IF at = EntryFault
                  THEN {Outcome(Table(t1.b, (t1.s + 1) % SizeMod), TRUE, NoValue, at)}
                  ELSE {Outcome(Table([t1.b EXCEPT ![i] = Append(@, KeyValuePair(k, v))],
                                      (t1.s + 1) % SizeMod), TRUE, NoValue, e)}

\* Remove(key, _exception)
RemoveDiag(t, k, at, e) ==
    IF at = HashFault THEN {Outcome(t, FALSE, NoValue, at)}
    ELSE IF Len(t.b) = 0 THEN UndefinedOutcomes(t, TRUE, e)
    ELSE LET i == BucketIndex(k, t.b) + 1
             j == Find(t.b[i], GetHashcode(k))
         IN  IF j # 0
             THEN {Outcome(Table([t.b EXCEPT ![i] = EraseAt(@, j)], (t.s - 1) % SizeMod),
                           TRUE, NoValue, e)}
             ELSE {Outcome(t, FALSE, NoValue, e)}

\* Get(key, _exception)
GetDiag(t, k, at, e) ==
    IF Len(t.b) = 0 THEN {Outcome(t, FALSE, NoValue, e)}
    ELSE IF at = HashFault THEN {Outcome(t, FALSE, NoValue, at)}
    ELSE LET i == BucketIndex(k, t.b) + 1
             j == Find(t.b[i], GetHashcode(k))
         IN  IF j # 0
             THEN {Outcome(t, TRUE, t.b[i][j].second, e)}
             ELSE {Outcome(t, FALSE, NoValue, e)}

DiagOutcomes(op, t, k, v, at, e) ==
    CASE op = "ContainsKey" -> ContainsKeyDiag(t, k, at, e)
      [] op = "Add"         -> AddDiag(t, k, v, at, e)
      [] op = "Assign"      -> AssignDiag(t, k, v, at, e)
      [] op = "Remove"      -> RemoveDiag(t, k, at, e)
      [] op = "Get"         -> GetDiag(t, k, at, e)

\* the forms without the parameter, as sets of outcomes
SafeOutcomes(op, t, k, v, at) ==
    CASE op = "ContainsKey" ->
             IF at = HashFault THEN {Outcome(t, FALSE, NoValue, NoValue)}
             ELSE IF Len(t.b) = 0 THEN UndefinedOutcomes(t, FALSE, NoValue)
             ELSE {Outcome(t, ContainsKeyT(t, k), NoValue, NoValue)}
      [] op = "Add" ->
             LET r == IF at = NoFault THEN AddT(t, k, v) ELSE AddFaultT(t, k, v, at)
             IN  {Outcome(r.t, r.res, NoValue, NoValue)}
      [] op = "Assign" ->
             {Outcome(IF at = NoFault THEN AssignT(t, k, v) ELSE AssignFaultT(t, k, v, at),
                      TRUE, NoValue, NoValue)}
      [] op = "Remove" ->
             IF at = HashFault
             THEN {Outcome(RemoveFaultT(t, k).t, RemoveFaultT(t, k).res, NoValue, NoValue)}
             ELSE IF Len(t.b) = 0 THEN UndefinedOutcomes(t, TRUE, NoValue)
             ELSE {Outcome(RemoveT(t, k).t, RemoveT(t, k).res, NoValue, NoValue)}
      [] op = "Get" ->
             LET out == IF at = HashFault /\ Len(t.b) # 0 THEN GetFaultT(t, k) ELSE GetT(t, k)
             IN  {Outcome(t, out # NoValue, out, NoValue)}

DiagOps == {"ContainsKey", "Add", "Assign", "Remove", "Get"}

\* the exception_ptr the caller passes in: null, or one left by an earlier call
Passed == {NoValue, HashFault}

\* the fault can happen: the hash is computed, an entry is created or copied
Reachable(op, t, k, at) ==
    /\ at \in {NoFault} \cup FaultsOf(op)
    /\ (op = "Get" /\ at = HashFault) => Len(t.b) # 0
    /\ (op = "Add" /\ at = EntryFault) => ~ContainsKeyT(GrowIfFull(t), k)

DiagRecord(op, k, v, at, e, o) ==
    [op |-> op, key |-> k, val |-> v, ok |-> o.ok, out |-> o.out,
     preB |-> m_Buckets, preS |-> m_Size,
     at |-> at, exception0 |-> e, exception |-> o.exception]

MaxDiagOps == 3

DiagCall(op, k, v, at, e) ==
    /\ CanCall
    /\ nOps < MaxDiagOps
    /\ Reachable(op, Tbl, k, at)
    /\ \E o \in DiagOutcomes(op, Tbl, k, v, at, e) :
          IF o.trap THEN Trap
          ELSE /\ Complete(o.t, DiagRecord(op, k, v, at, e, o))
               /\ ub' = o.ub

NextDiag ==
    \/ \E op \in DiagOps, k \in Tk, v \in Tv, at \in {NoFault, HashFault, EntryFault},
          e \in Passed :
          DiagCall(op, k, v, at, e) /\ UNCHANGED <<cntvars, thrvars>>
    \/ Trim /\ UNCHANGED <<cntvars, thrvars>>
    \/ Clear /\ UNCHANGED <<cntvars, thrvars>>

SpecDiag == Init /\ [][NextDiag]_vars

\* ------------------------- SpecList: Hashmap(initializer_list, _capacity)

MaxItems == 3

Pairs == {KeyValuePair(k, v) : k \in Tk, v \in Tv}

\* the initializer lists of at most n pairs
RECURSIVE Lists(_)
Lists(n) ==
    IF n = 0 THEN {<<>>}
    ELSE LET shorter == Lists(n - 1)
         IN  shorter \cup {Append(l, p) : l \in shorter, p \in Pairs}

\* for (const auto& item : _items) Assign(item.first, item.second)
RECURSIVE AssignEach(_, _)
AssignEach(items, t) ==
    IF items = <<>> THEN t
    ELSE AssignEach(Tail(items), AssignT(t, Head(items).first, Head(items).second))

\* Hashmap(_items, _capacity)
HashmapT(items, capacity) ==
    LET auto_capacity == IF capacity < 1
                         THEN (IF Len(items) > 1 THEN Len(items) ELSE 1)
                         ELSE capacity
    IN  AssignEach(items, Table(EmptyBuckets(auto_capacity), 0))

\* the table right after construction from a list; the call records the list
InitList ==
    /\ \E items \in Lists(MaxItems), c \in 0..MaxInitCap :
          /\ m_Buckets = HashmapT(items, c).b
          /\ m_Size = HashmapT(items, c).s
          /\ last = [op |-> "Hashmap", key |-> NoKey, val |-> c, ok |-> TRUE,
                     out |-> NoValue, preB |-> <<>>, preS |-> 0, items |-> items]
    /\ ub = FALSE
    /\ prev = Summary(NoCall)
    /\ nOps = 0
    /\ InitCount
    /\ InitThreads
    /\ prog = NoProg

\* the constructing thread looks a key up, or asks for the count
ListGet(k) ==
    /\ obs' = [obs EXCEPT ![1] = [kind |-> "Get", key |-> k, value |-> GetT(Tbl, k),
                                  lo |-> 0, hi |-> 0]]
    /\ UNCHANGED <<m_Buckets, m_Size, ub, last, prev, nOps, cntvars,
                   s_Lock, pc, frame, ref, ret, prog>>

ListSize ==
    /\ obs' = [obs EXCEPT ![1] = [kind |-> "size", key |-> NoKey, value |-> m_Size,
                                  lo |-> 0, hi |-> 0]]
    /\ UNCHANGED <<m_Buckets, m_Size, ub, last, prev, nOps, cntvars,
                   s_Lock, pc, frame, ref, ret, prog>>

NextList ==
    \/ \E k \in Tk : ListGet(k)
    \/ ListSize

SpecList == InitList /\ [][NextList]_vars

\* --------------- SpecGrow: Add, Assign and Trim over keys that share a bucket

MaxGrowKey == 6
MaxGrowOps == 6

Gk == 0..MaxGrowKey

CanGrow == ~ub /\ nOps < MaxGrowOps

GrowAdd(k, v) ==
    /\ CanGrow
    /\ LET r == AddT(Tbl, k, v)
       IN  Done(r.t, Call("Add", k, v, r.res, NoValue))

GrowAssign(k, v) ==
    /\ CanGrow
    /\ Done(AssignT(Tbl, k, v), Call("Assign", k, v, TRUE, NoValue))

GrowTrim ==
    /\ CanGrow
    /\ Done(TrimT(Tbl), Call("Trim", NoKey, NoValue, TRUE, NoValue))

NextGrow ==
    \/ \E k \in Gk : GrowAdd(k, 1) /\ UNCHANGED <<cntvars, thrvars>>
    \/ \E k \in Gk : GrowAssign(k, 1) /\ UNCHANGED <<cntvars, thrvars>>
    \/ GrowTrim /\ UNCHANGED <<cntvars, thrvars>>

SpecGrow == Init /\ [][NextGrow]_vars

\* ------------- SpecRef: Add, Assign, Remove, Reserve beside a dictionary

\* the reference dictionary (NoValue: no entry) and what it returns for the
\* call made last
NoDict == [dict |-> [k \in Tk |-> NoValue], ret |-> FALSE]

RefAdd(k, v) ==
    /\ Add(k, v)
    /\ prog' = [dict |-> IF prog.dict[k] = NoValue
                         THEN [prog.dict EXCEPT ![k] = v]
                         ELSE prog.dict,
                ret |-> prog.dict[k] = NoValue]

RefAssign(k, v) ==
    /\ Assign(k, v)
    /\ prog' = [dict |-> [prog.dict EXCEPT ![k] = v], ret |-> TRUE]

RefRemove(k) ==
    /\ Remove(k)
    /\ prog' = [dict |-> [prog.dict EXCEPT ![k] = NoValue],
                ret |-> prog.dict[k] # NoValue]

RefReserve(n) ==
    /\ Reserve(n)
    /\ prog' = [prog EXCEPT !.ret = TRUE]

InitRef == InitTable /\ InitCount /\ InitThreads /\ prog = NoDict

NextRef ==
    \/ \E k \in Tk, v \in Tv :
          RefAdd(k, v) /\ UNCHANGED <<cntvars, s_Lock, pc, frame, ref, obs, ret>>
    \/ \E k \in Tk, v \in Tv :
          RefAssign(k, v) /\ UNCHANGED <<cntvars, s_Lock, pc, frame, ref, obs, ret>>
    \/ \E k \in Tk :
          RefRemove(k) /\ UNCHANGED <<cntvars, s_Lock, pc, frame, ref, obs, ret>>
    \/ \E n \in 0..MaxCap :
          RefReserve(n) /\ UNCHANGED <<cntvars, s_Lock, pc, frame, ref, obs, ret>>

SpecRef == InitRef /\ [][NextRef]_vars

\* ------------------------------- SpecLegacy: the table of src/Hashmap.h

RECURSIVE LegacyResizeT(_)
RECURSIVE LegacyAddT(_, _, _)
RECURSIVE LegacyReAdd(_, _)

\* the loop of Resize(): Add every entry of the copy
LegacyReAdd(es, t) ==
    IF es = <<>> THEN t
    ELSE LegacyReAdd(Tail(es), LegacyAddT(t, Head(es).first, Head(es).second).t)

\* Resize(): size() is read again after m_Size = 0, so the new number of
\* buckets is 0 + resize_amount
LegacyResizeT(t) ==
    LET resize_amount == t.s
        shallowCopy   == t.b
        size          == 0
    IN  LegacyReAdd(Flatten(shallowCopy), Table(EmptyBuckets(size + resize_amount), 0))

\* if (size() >= m_Buckets.size()) Resize()
LegacyGrow(t) == IF t.s >= Len(t.b) THEN LegacyResizeT(t) ELSE t

\* Add(_key, _value)
LegacyAddT(t, k, v) ==
    LET t1 == LegacyGrow(t)
        i  == BucketIndex(k, t1.b) + 1
        j  == Find(t1.b[i], GetHashcode(k))
    IN  IF j # 0
        THEN [t |-> t1, res |-> FALSE]
        ELSE [t |-> Table([t1.b EXCEPT ![i] = Append(@, KeyValuePair(k, v))],
                          (t1.s + 1) % SizeMod),
              res |-> TRUE]

\* Assign(_key, _value): m_Size++ whether or not the key exists
LegacyAssignT(t, k, v) ==
    LET t1 == LegacyGrow(t)
        i  == BucketIndex(k, t1.b) + 1
        j  == Find(t1.b[i], GetHashcode(k))
    IN  Table(IF j # 0
              THEN [t1.b EXCEPT ![i][j].second = v]
              ELSE [t1.b EXCEPT ![i] = Append(@, KeyValuePair(k, v))],
              (t1.s + 1) % SizeMod)

\* Remove(_key)
LegacyRemoveT(t, k) ==
    LET i == BucketIndex(k, t.b) + 1
        j == Find(t.b[i], GetHashcode(k))
    IN  IF j # 0
        THEN [t |-> Table([t.b EXCEPT ![i] = EraseAt(@, j)], (t.s - 1) % SizeMod),
              res |-> TRUE]
        ELSE [t |-> t, res |-> FALSE]

\* Get(_key, _out): the value copied to _out, NoValue when false is returned
LegacyGetT(t, k) ==
    LET i == BucketIndex(k, t.b) + 1
        j == Find(t.b[i], GetHashcode(k))
    IN  IF j # 0 THEN t.b[i][j].second ELSE NoValue

\* Clear(): m_Size is not written
LegacyClearT(t) == Table(EmptyBuckets(1), t.s)

LegacyAdd(k, v) ==
    /\ CanCall
    /\ LET r == LegacyAddT(Tbl, k, v)
       IN  Done(r.t, Call("Add", k, v, r.res, NoValue))

LegacyAssign(k, v) ==
    /\ CanCall
    /\ Done(LegacyAssignT(Tbl, k, v), Call("Assign", k, v, TRUE, NoValue))

LegacyRemove(k) ==
    /\ CanCall
    /\ LET r == LegacyRemoveT(Tbl, k)
       IN  Done(r.t, Call("Remove", k, NoValue, r.res, NoValue))

LegacyGet(k) ==
    /\ CanCall
    /\ LET out == LegacyGetT(Tbl, k)
       IN  Done(Tbl, Call("Get", k, NoValue, out # NoValue, out))

LegacyClear ==
    /\ CanCall
    /\ Done(LegacyClearT(Tbl), Call("Clear", NoKey, NoValue, TRUE, NoValue))

NextLegacy ==
    \/ \E k \in Tk, v \in Tv : LegacyAdd(k, v) /\ UNCHANGED <<cntvars, thrvars>>
    \/ \E k \in Tk, v \in Tv : LegacyAssign(k, v) /\ UNCHANGED <<cntvars, thrvars>>
    \/ \E k \in Tk : LegacyRemove(k) /\ UNCHANGED <<cntvars, thrvars>>
    \/ \E k \in Tk : LegacyGet(k) /\ UNCHANGED <<cntvars, thrvars>>
    \/ LegacyClear /\ UNCHANGED <<cntvars, thrvars>>

SpecLegacy == Init /\ [][NextLegacy]_vars

\* --------------------------- SpecAddRemove: Add and Remove on a fresh table

\* std::to_string(i), folded into the values of the model
Str(i) == (i % MaxVal) + 1

\* the churn loop of the test: for i in [N, 2N): Add(i, str(i)); Remove(i - N)
ChurnN == 2

ChurnStep(j) ==
    IF j % 2 = 0
    THEN [op |-> "Add", key |-> ChurnN + (j \div 2), val |-> Str(ChurnN + (j \div 2))]
    ELSE [op |-> "Remove", key |-> j \div 2, val |-> NoValue]

Count ==
    /\ adds' = adds + (IF last'.op = "Add" /\ last'.ok THEN 1 ELSE 0)
    /\ removes' = removes + (IF last'.op = "Remove" /\ last'.ok THEN 1 ELSE 0)
    /\ churn' = IF /\ churn >= 0
                   /\ churn < 2 * ChurnN
                   /\ [op |-> last'.op, key |-> last'.key, val |-> last'.val]
                        = ChurnStep(churn)
                THEN churn + 1
                ELSE 0 - 1

NextAddRemove ==
    \/ \E k \in Tk, v \in Tv : Add(k, v) /\ Count /\ UNCHANGED thrvars
    \/ \E k \in Tk : Remove(k) /\ Count /\ UNCHANGED thrvars

SpecAddRemove == Init /\ [][NextAddRemove]_vars

\* ------------------------------------------ operations as steps of a thread

\* a lock that excludes nobody
CanLock_Always(t) == TRUE

\* std::recursive_mutex: free, or owned by the thread that asks again
CanLock(t) == s_Lock.owner = NoThread \/ s_Lock.owner = t

Locked(t) == [owner |-> t, count |-> s_Lock.count + 1]

\* ~lock_guard
Unlocked(t) ==
    IF s_Lock.count > 1
    THEN [owner |-> t, count |-> s_Lock.count - 1]
    ELSE [owner |-> NoThread, count |-> 0]

hist == <<last, prev, adds, removes, churn>>

\* Keys(), Values(), GetAll(): the copies they return
RECURSIVE Firsts(_)
Firsts(es) == IF es = <<>> THEN <<>> ELSE <<Head(es).first>> \o Firsts(Tail(es))

RECURSIVE Seconds(_)
Seconds(es) == IF es = <<>> THEN <<>> ELSE <<Head(es).second>> \o Seconds(Tail(es))

KeysT(t) == Firsts(Flatten(t.b))

ValuesT(t) == Seconds(Flatten(t.b))

GetAllT(t) == Flatten(t.b)

\* the references handed out by Get, those into storage that a writer has
\* freed, moved or overwritten marked as no longer valid
Invalidated(bkts, poss) ==
    [u \in Threads |->
        IF ref[u].kind = "value" /\ ref[u].bkt \in bkts /\ ref[u].pos \in poss
        THEN [ref[u] EXCEPT !.valid = FALSE]
        ELSE ref[u]]

\* a call: const std::lock_guard<std::recursive_mutex> lock(s_Lock)
Enter(t, op, k, v) ==
    /\ ~ub
    /\ pc[t] = "idle"
    /\ CanLock(t)
    /\ s_Lock' = Locked(t)
    /\ pc' = [pc EXCEPT ![t] = "body"]
    /\ frame' = [frame EXCEPT ![t] = [NoFrame EXCEPT !.op = op, !.key = k, !.val = v,
                                                      !.preB = m_Buckets, !.preS = m_Size]]
    /\ UNCHANGED <<m_Buckets, m_Size, ub, ref, obs, ret, hist>>

InBody(t, ops) == ~ub /\ pc[t] = "body" /\ frame[t].op \in ops

Goto(t, f, to) ==
    /\ frame' = [frame EXCEPT ![t] = f]
    /\ pc' = [pc EXCEPT ![t] = to]

\* the bodies of size, Get, operator[], Keys, Values and GetAll
BodyRead(t) ==
    /\ InBody(t, {"size", "Get", "Index", "Keys", "Values", "GetAll"})
    /\ LET f == frame[t]
       IN  CASE f.op = "size"   -> Goto(t, [f EXCEPT !.ok = TRUE], "exit")
             [] f.op = "Get"    -> Goto(t, [f EXCEPT !.out = GetT(Tbl, f.key),
                                                     !.ok = GetT(Tbl, f.key) # NoValue], "exit")
             [] f.op = "Index"  -> LET r == ReturnT(Tbl, f.key)
                                   IN  Goto(t, [f EXCEPT !.out = r.value, !.ok = ~r.throws,
                                                          !.threw = r.throws],
                                            IF r.throws THEN "unwind" ELSE "exit")
             [] f.op = "Keys"   -> Goto(t, [f EXCEPT !.ok = TRUE, !.snap = KeysT(Tbl)], "exit")
             [] f.op = "Values" -> Goto(t, [f EXCEPT !.ok = TRUE, !.snap = ValuesT(Tbl)], "exit")
             [] f.op = "GetAll" -> Goto(t, [f EXCEPT !.ok = TRUE, !.snap = GetAllT(Tbl)], "exit")
    /\ UNCHANGED <<m_Buckets, m_Size, ub, s_Lock, ref, obs, ret, hist>>

\* the body of ContainsKey; with no buckets, hash % 0
BodyContainsKey(t) ==
    /\ InBody(t, {"ContainsKey"})
    /\ IF Len(m_Buckets) # 0
       THEN /\ Goto(t, [frame[t] EXCEPT !.ok = ContainsKeyT(Tbl, frame[t].key)], "exit")
            /\ UNCHANGED ub
       ELSE /\ ub' = TRUE
            /\ \/ UNCHANGED <<pc, frame>>
               \/ \E found \in BOOLEAN : Goto(t, [frame[t] EXCEPT !.ok = found], "exit")
    /\ UNCHANGED <<m_Buckets, m_Size, s_Lock, ref, obs, ret, hist>>

\* the body of Remove; bucket.erase moves the entries behind the erased one
BodyRemove(t) ==
    /\ InBody(t, {"Remove"})
    /\ IF Len(m_Buckets) # 0
       THEN LET k == frame[t].key
                r == RemoveT(Tbl, k)
                i == BucketIndex(k, m_Buckets) + 1
                j == Find(m_Buckets[i], GetHashcode(k))
            IN  /\ m_Buckets' = r.t.b
                /\ m_Size' = r.t.s
                /\ Goto(t, [frame[t] EXCEPT !.ok = r.res], "exit")
                /\ ref' = IF r.res
                          THEN Invalidated({i}, j..Len(m_Buckets[i]))
                          ELSE ref
                /\ UNCHANGED ub
       ELSE /\ ub' = TRUE
            /\ \/ UNCHANGED <<pc, frame, m_Size>>
               \/ \E found \in BOOLEAN :
                     /\ m_Size' = (m_Size - (IF found THEN 1 ELSE 0)) % SizeMod
                     /\ Goto(t, [frame[t] EXCEPT !.ok = found], "exit")
            /\ UNCHANGED <<m_Buckets, ref>>
    /\ UNCHANGED <<s_Lock, obs, ret, hist>>

\* the bodies of Trim and Clear; Trim erases a bucket behind every entry,
\* Clear destroys them all
BodyTrimClear(t) ==
    /\ InBody(t, {"Trim", "Clear"})
    /\ LET after == IF frame[t].op = "Trim" THEN TrimT(Tbl) ELSE ClearT(Tbl)
       IN  /\ m_Buckets' = after.b
           /\ m_Size' = after.s
    /\ ref' = IF frame[t].op = "Clear" THEN Invalidated(Nat, Nat) ELSE ref
    /\ Goto(t, [frame[t] EXCEPT !.ok = TRUE], "exit")
    /\ UNCHANGED <<ub, s_Lock, obs, ret, hist>>

\* where a call goes once the table has the room it asked for
AfterGrow(op) == IF op = "Reserve" THEN "exit" ELSE "insert"

\* the load check of Add and Assign and the test of Reserve; Resize begins:
\* shallow_cpy = m_Buckets; m_Size = 0; m_Buckets.clear(); m_Buckets.resize(n)
BodyGrow(t) ==
    /\ InBody(t, {"Add", "Assign", "Reserve"})
    /\ LET f       == frame[t]
           grows   == IF f.op = "Reserve" THEN m_Size < f.val ELSE m_Size >= Len(m_Buckets)
           newSize == IF f.op = "Reserve" THEN f.val ELSE Len(m_Buckets) * 2
           n       == IF newSize > 0 THEN newSize ELSE 1
           work    == Flatten(m_Buckets)
       IN  IF grows
           THEN /\ n <= MaxCap
                /\ m_Size' = 0
                /\ m_Buckets' = EmptyBuckets(n)
                /\ ref' = Invalidated(Nat, Nat)
                /\ Goto(t, [f EXCEPT !.work = work],
                        IF work = <<>> THEN AfterGrow(f.op) ELSE "resize")
           ELSE /\ Goto(t, f, AfterGrow(f.op))
                /\ UNCHANGED <<m_Buckets, m_Size, ref>>
    /\ UNCHANGED <<ub, s_Lock, obs, ret, hist>>

\* one turn of the loop of Resize: Assign(std::move(kvp.first),
\* std::move(kvp.second), e), which takes the lock its caller holds
ResizeStep(t) ==
    /\ ~ub
    /\ pc[t] = "resize"
    /\ CanLock(t)
    /\ LET f     == frame[t]
           e     == Head(f.work)
           after == AssignT(Tbl, e.first, e.second)
       IN  /\ Len(after.b) <= MaxCap
           /\ m_Buckets' = after.b
           /\ m_Size' = after.s
           /\ Goto(t, [f EXCEPT !.work = Tail(f.work)],
                   IF Tail(f.work) = <<>> THEN AfterGrow(f.op) ELSE "resize")
    /\ UNCHANGED <<ub, s_Lock, ref, obs, ret, hist>>

\* Add and Assign past the load check: find the key in its bucket, then
\* emplace_back (which may move the bucket) or overwrite the value
Insert(t) ==
    /\ ~ub
    /\ pc[t] = "insert"
    /\ LET f     == frame[t]
           i     == BucketIndex(f.key, m_Buckets) + 1
           j     == Find(m_Buckets[i], GetHashcode(f.key))
           after == IF f.op = "Add"
                    THEN AddCore(Tbl, f.key, f.val)
                    ELSE [t |-> AssignCore(Tbl, f.key, f.val), res |-> TRUE]
       IN  /\ m_Buckets' = after.t.b
           /\ m_Size' = after.t.s
           /\ ref' = IF j = 0
                     THEN Invalidated({i}, Nat)
                     ELSE IF f.op = "Assign"
                          THEN Invalidated({i}, {j})
                          ELSE ref
           /\ Goto(t, [f EXCEPT !.ok = after.res], "exit")
    /\ UNCHANGED <<ub, s_Lock, obs, ret, hist>>

\* return: the lock_guard is destroyed, and the caller holds what size and
\* Get hand back, a reference to m_Size or to the value in its bucket
Exit(t) ==
    /\ ~ub
    /\ pc[t] = "exit"
    /\ s_Lock' = Unlocked(t)
    /\ ret' = [ret EXCEPT ![t] = [op |-> frame[t].op, threw |-> FALSE]]
    /\ LET f == frame[t]
       IN  IF f.op = "size"
           THEN /\ ref' = [ref EXCEPT ![t] = [NoRef EXCEPT !.kind = "size"]]
                /\ pc' = [pc EXCEPT ![t] = "deref"]
           ELSE IF f.op = "Get" /\ f.ok
                THEN /\ ref' = [ref EXCEPT ![t] =
                           [NoRef EXCEPT !.kind = "value", !.key = f.key,
                               !.bkt = BucketIndex(f.key, m_Buckets) + 1,
                               !.pos = Find(m_Buckets[BucketIndex(f.key, m_Buckets) + 1],
                                            GetHashcode(f.key))]]
                     /\ pc' = [pc EXCEPT ![t] = "deref"]
                ELSE /\ pc' = [pc EXCEPT ![t] = "idle"]
                     /\ UNCHANGED ref
    /\ UNCHANGED <<m_Buckets, m_Size, ub, frame, obs, hist>>

\* throw std::runtime_error("Attempted to access a nonexistent entry...")
\* leaves Return and operator[]: the lock_guard is destroyed on the way out
Unwind(t) ==
    /\ ~ub
    /\ pc[t] = "unwind"
    /\ s_Lock' = Unlocked(t)
    /\ ret' = [ret EXCEPT ![t] = [op |-> frame[t].op, threw |-> TRUE]]
    /\ pc' = [pc EXCEPT ![t] = "idle"]
    /\ UNCHANGED <<m_Buckets, m_Size, ub, frame, ref, obs, hist>>

\* a call of Add or Assign by another thread that is between the first and
\* the last of its writes to m_Size
Resizing(t) ==
    {u \in Threads \ {t} : pc[u] \in {"resize", "insert"} /\ frame[u].op \in {"Add", "Assign"}}

\* the count that call will leave
PostSize(f) ==
    IF f.op = "Add"
    THEN AddT(Table(f.preB, f.preS), f.key, f.val).t.s
    ELSE AssignT(Table(f.preB, f.preS), f.key, f.val).s

\* the caller of size() reads the size_t the returned reference refers to
DerefSize(t) ==
    /\ ~ub
    /\ pc[t] = "deref"
    /\ ref[t].kind = "size"
    /\ obs' = [obs EXCEPT ![t] =
          IF Resizing(t) # {}
          THEN LET u == CHOOSE u \in Resizing(t) : TRUE
               IN  [NoObs EXCEPT !.kind = "size", !.value = m_Size,
                                 !.lo = frame[u].preS, !.hi = PostSize(frame[u])]
          ELSE [NoObs EXCEPT !.kind = "size", !.value = m_Size,
                             !.lo = m_Size, !.hi = m_Size]]
    /\ ref' = [ref EXCEPT ![t] = NoRef]
    /\ pc' = [pc EXCEPT ![t] = "idle"]
    /\ UNCHANGED <<m_Buckets, m_Size, ub, s_Lock, frame, ret, hist>>

\* the caller of Get reads the value the optional_ref refers to; when the
\* storage has gone the read is undefined: it traps, or yields anything
DerefValue(t) ==
    /\ ~ub
    /\ pc[t] = "deref"
    /\ ref[t].kind = "value"
    /\ IF ref[t].valid
       THEN /\ obs' = [obs EXCEPT ![t] =
                  [NoObs EXCEPT !.kind = "value", !.key = ref[t].key,
                                !.value = m_Buckets[ref[t].bkt][ref[t].pos].second]]
            /\ ref' = [ref EXCEPT ![t] = NoRef]
            /\ pc' = [pc EXCEPT ![t] = "idle"]
            /\ UNCHANGED ub
       ELSE /\ ub' = TRUE
            /\ \/ UNCHANGED <<obs, ref, pc>>
               \/ \E g \in Tv \cup {NoValue} :
                     /\ obs' = [obs EXCEPT ![t] =
                           [NoObs EXCEPT !.kind = "value", !.key = ref[t].key, !.value = g]]
                     /\ ref' = [ref EXCEPT ![t] = NoRef]
                     /\ pc' = [pc EXCEPT ![t] = "idle"]
    /\ UNCHANGED <<m_Buckets, m_Size, s_Lock, frame, ret, hist>>

\* ------------------------------- SpecSnap: Keys, Values and GetAll by value

\* the vector returned by value, held by the caller, with the table it was
\* taken from
Snapshot(kind, result) ==
    /\ CanCall
    /\ obs' = [obs EXCEPT ![1] = [kind |-> kind, key |-> NoKey, value |-> result,
                                  lo |-> 0, hi |-> m_Size, b |-> m_Buckets]]
    /\ nOps' = nOps + 1
    /\ UNCHANGED <<m_Buckets, m_Size, ub, last, prev, cntvars,
                   s_Lock, pc, frame, ref, ret, prog>>

Keys == Snapshot("Keys", KeysT(Tbl))

Values == Snapshot("Values", ValuesT(Tbl))

GetAll == Snapshot("GetAll", GetAllT(Tbl))

NextSnap ==
    \/ \E k \in Tk, v \in Tv : Add(k, v) /\ UNCHANGED <<cntvars, thrvars>>
    \/ \E k \in Tk, v \in Tv : Assign(k, v) /\ UNCHANGED <<cntvars, thrvars>>
    \/ \E k \in Tk : Remove(k) /\ UNCHANGED <<cntvars, thrvars>>
    \/ Trim /\ UNCHANGED <<cntvars, thrvars>>
    \/ Clear /\ UNCHANGED <<cntvars, thrvars>>
    \/ Keys
    \/ Values
    \/ GetAll

SpecSnap == Init /\ [][NextSnap]_vars

\* ------------------------------------ SpecIter: const_iterator, begin, end

\* m_Outer is a bucket's position, Len(b) + 1 for m_Buckets.end(); m_Inner is a
\* position in that bucket, its length + 1 for the bucket's end(), 0 for the
\* value-initialised inner_itr()
Iterator(outer, inner) ==
    [kind |-> "iterator", key |-> NoKey, bkt |-> outer, pos |-> inner,
     val |-> NoValue, valid |-> TRUE]

\* while (++m_Outer != m_Outer_End) if (!m_Outer->empty()) break
RECURSIVE NextOccupied(_, _)
NextOccupied(b, outer) ==
    IF outer + 1 > Len(b) THEN Len(b) + 1
    ELSE IF b[outer + 1] # <<>> THEN outer + 1
    ELSE NextOccupied(b, outer + 1)

\* operator++: valid is FALSE when ++m_Inner steps beyond the bucket's end()
Increment(b, it) ==
    LET inner == it.pos + 1
        len   == Len(b[it.bkt])
    IN  IF inner = len + 1
        THEN LET outer == NextOccupied(b, it.bkt)
             IN  Iterator(outer, IF outer = Len(b) + 1 THEN 0 ELSE 1)
        ELSE IF inner <= len THEN Iterator(it.bkt, inner)
        ELSE [Iterator(it.bkt, inner) EXCEPT !.valid = FALSE]

\* const_iterator(_outer, _outer_end, _inner)
Construct(b, outer, inner) ==
    IF outer # Len(b) + 1 /\ inner = Len(b[outer]) + 1
    THEN Increment(b, Iterator(outer, inner))
    ELSE Iterator(outer, inner)

BeginT(b) == IF Len(b) = 0 THEN Construct(b, 1, 0) ELSE Construct(b, 1, 1)

EndT(b) == Construct(b, Len(b) + 1, 0)

\* operator==
IterEq(b, x, y) == x.bkt = y.bkt /\ (x.bkt = Len(b) + 1 \/ x.pos = y.pos)

Iterating == ref[1].kind = "iterator"

\* auto it = begin(): the entries dereferenced and the increments made so far
\* are kept with it
begin ==
    /\ ~ub
    /\ ~Iterating
    /\ ref' = [ref EXCEPT ![1] = BeginT(m_Buckets)]
    /\ obs' = [obs EXCEPT ![1] = [kind |-> "iterated", key |-> NoKey, value |-> <<>>,
                                  lo |-> 0, hi |-> 0]]
    /\ ub' = ~BeginT(m_Buckets).valid
    /\ UNCHANGED <<m_Buckets, m_Size, last, prev, nOps, cntvars,
                   s_Lock, pc, frame, ret, prog>>

\* one round of for (; it != end(); ++it) { *it; }
Advance ==
    /\ ~ub
    /\ Iterating
    /\ ~IterEq(m_Buckets, ref[1], EndT(m_Buckets))
    /\ LET it == Increment(m_Buckets, ref[1])
       IN  /\ ref' = [ref EXCEPT ![1] = it]
           /\ obs' = [obs EXCEPT ![1].value = Append(@, m_Buckets[ref[1].bkt][ref[1].pos]),
                                 ![1].hi = @ + 1]
           /\ ub' = ~it.valid
    /\ UNCHANGED <<m_Buckets, m_Size, last, prev, nOps, cntvars,
                   s_Lock, pc, frame, ret, prog>>

NextIter ==
    \/ \E k \in Tk, v \in Tv : ~Iterating /\ Add(k, v) /\ UNCHANGED <<cntvars, thrvars>>
    \/ \E k \in Tk, v \in Tv : ~Iterating /\ Assign(k, v) /\ UNCHANGED <<cntvars, thrvars>>
    \/ \E k \in Tk : ~Iterating /\ Remove(k) /\ UNCHANGED <<cntvars, thrvars>>
    \/ ~Iterating /\ Trim /\ UNCHANGED <<cntvars, thrvars>>
    \/ ~Iterating /\ Clear /\ UNCHANGED <<cntvars, thrvars>>
    \/ begin
    \/ Advance

SpecIter == Init /\ [][NextIter]_vars

\* ------------- SpecStatic: threads calling operations of several tables

\* the tables of one Hashmap<Tk, Tv>; in this specification m_Buckets, m_Size
\* and s_Lock hold one element per table
NInstances == 2
Instances  == 1..NInstances

MaxStaticOps == 3

\* as many locks as there are tables, were the lock a member of each table
LockOf_PerInstance(x) == x

\* inline static std::recursive_mutex s_Lock: one lock for every table
LockOf(x) == 1

RECURSIVE Repeat(_, _)
Repeat(e, n) == IF n = 0 THEN <<>> ELSE Append(Repeat(e, n - 1), e)

InitStatic ==
    /\ \E c \in 1..MaxInitCap : m_Buckets = Repeat(EmptyBuckets(c), NInstances)
    /\ m_Size = Repeat(0, NInstances)
    /\ s_Lock = Repeat([owner |-> NoThread, count |-> 0], NInstances)
    /\ ub = FALSE
    /\ last = NoCall
    /\ prev = Summary(NoCall)
    /\ nOps = 0
    /\ InitCount
    /\ pc = [t \in Threads |-> "idle"]
    /\ frame = [t \in Threads |-> NoFrame]
    /\ ref = [t \in Threads |-> NoRef]
    /\ obs = [t \in Threads |-> NoObs]
    /\ ret = [t \in Threads |-> NoRet]
    /\ prog = NoProg

\* the table a thread's call is made on
StaticT(t) == Table(m_Buckets[frame[t].table], m_Size[frame[t].table])

StaticSet(t, tbl) ==
    /\ Len(tbl.b) <= MaxCap
    /\ m_Buckets' = [m_Buckets EXCEPT ![frame[t].table] = tbl.b]
    /\ m_Size' = [m_Size EXCEPT ![frame[t].table] = tbl.s]

\* const std::lock_guard<std::recursive_mutex> lock(s_Lock) of a call on table x
StaticEnter(t, x, op, k, v) ==
    /\ pc[t] = "idle"
    /\ nOps < MaxStaticOps
    /\ s_Lock[LockOf(x)].owner \in {NoThread, t}
    /\ s_Lock' = [s_Lock EXCEPT ![LockOf(x)] = [owner |-> t, count |-> @.count + 1]]
    /\ pc' = [pc EXCEPT ![t] = "body"]
    /\ frame' = [frame EXCEPT ![t] =
                    [op |-> op, key |-> k, val |-> v, work |-> <<>>,
                     preB |-> m_Buckets[x], preS |-> m_Size[x], ok |-> FALSE,
                     out |-> NoValue, snap |-> <<>>, threw |-> FALSE, table |-> x]]
    /\ nOps' = nOps + 1
    /\ UNCHANGED <<m_Buckets, m_Size, ub, last, prev, cntvars, ref, obs, ret, prog>>

\* if (m_Size >= m_Buckets.size()) Resize(m_Buckets.size() * 2U)
StaticResize(t) ==
    /\ pc[t] = "body"
    /\ frame[t].op \in {"Add", "Assign"}
    /\ StaticT(t).s >= Len(StaticT(t).b)
    /\ StaticSet(t, GrowIfFull(StaticT(t)))
    /\ pc' = [pc EXCEPT ![t] = "insert"]
    /\ UNCHANGED <<s_Lock, ub, last, prev, nOps, cntvars, frame, ref, obs, ret, prog>>

\* the rest of the body
StaticBody(t) ==
    /\ \/ pc[t] = "insert"
       \/ pc[t] = "body" /\ ~(frame[t].op \in {"Add", "Assign"} /\ StaticT(t).s >= Len(StaticT(t).b))
    /\ LET f == frame[t]
           r == CASE f.op = "Add"    -> AddCore(StaticT(t), f.key, f.val)
                  [] f.op = "Assign" -> [t |-> AssignCore(StaticT(t), f.key, f.val),
                                         res |-> TRUE]
                  [] f.op = "Remove" -> RemoveT(StaticT(t), f.key)
                  [] f.op = "Get"    -> [t |-> StaticT(t),
                                         res |-> GetT(StaticT(t), f.key) # NoValue]
       IN  /\ StaticSet(t, r.t)
           /\ frame' = [frame EXCEPT ![t].ok = r.res]
    /\ pc' = [pc EXCEPT ![t] = "exit"]
    /\ UNCHANGED <<s_Lock, ub, last, prev, nOps, cntvars, ref, obs, ret, prog>>

\* ~lock_guard and return
StaticExit(t) ==
    /\ pc[t] = "exit"
    /\ s_Lock' = [s_Lock EXCEPT ![LockOf(frame[t].table)] =
                     IF @.count > 1
                     THEN [owner |-> t, count |-> @.count - 1]
                     ELSE [owner |-> NoThread, count |-> 0]]
    /\ ret' = [ret EXCEPT ![t] = [op |-> frame[t].op, threw |-> FALSE]]
    /\ pc' = [pc EXCEPT ![t] = "idle"]
    /\ UNCHANGED <<m_Buckets, m_Size, ub, last, prev, nOps, cntvars, frame, ref, obs, prog>>

NextStatic ==
    \/ \E t \in Threads, x \in Instances, op \in {"Add", "Assign", "Remove", "Get"},
          k \in Tk :
          StaticEnter(t, x, op, k, 1)
    \/ \E t \in Threads : StaticResize(t)
    \/ \E t \in Threads : StaticBody(t)
    \/ \E t \in Threads : StaticExit(t)

SpecStatic == InitStatic /\ [][NextStatic]_vars

\* --------------------- SpecMutex: threads calling any operation of one table

MaxConcOps == 3

Keyed == {"ContainsKey", "Add", "Assign", "Remove", "Get", "Index"}

Unkeyed == {"size", "Trim", "Clear", "Keys", "Values", "GetAll"}

CallAny(t) ==
    /\ nOps < MaxConcOps
    /\ nOps' = nOps + 1
    /\ \/ \E op \in Unkeyed : Enter(t, op, NoKey, NoValue)
       \/ \E op \in Keyed \ {"Add", "Assign"}, k \in Tk : Enter(t, op, k, NoValue)
       \/ \E op \in {"Add", "Assign"}, k \in Tk, v \in Tv : Enter(t, op, k, v)
       \/ \E n \in 0..MaxCap : Enter(t, "Reserve", NoKey, n)

NextMutex ==
    \/ \E t \in Threads : CallAny(t) /\ UNCHANGED prog
    \/ \E t \in Threads : BodyRead(t) /\ UNCHANGED <<nOps, prog>>
    \/ \E t \in Threads : BodyContainsKey(t) /\ UNCHANGED <<nOps, prog>>
    \/ \E t \in Threads : BodyRemove(t) /\ UNCHANGED <<nOps, prog>>
    \/ \E t \in Threads : BodyTrimClear(t) /\ UNCHANGED <<nOps, prog>>
    \/ \E t \in Threads : BodyGrow(t) /\ UNCHANGED <<nOps, prog>>
    \/ \E t \in Threads : ResizeStep(t) /\ UNCHANGED <<nOps, prog>>
    \/ \E t \in Threads : Insert(t) /\ UNCHANGED <<nOps, prog>>
    \/ \E t \in Threads : Exit(t) /\ UNCHANGED <<nOps, prog>>
    \/ \E t \in Threads : Unwind(t) /\ UNCHANGED <<nOps, prog>>
    \/ \E t \in Threads : DerefSize(t) /\ UNCHANGED <<nOps, prog>>
    \/ \E t \in Threads : DerefValue(t) /\ UNCHANGED <<nOps, prog>>

SpecMutex == Init /\ [][NextMutex]_vars

\* ------------------ SpecRW: the writer and the reader of the concurrency test

Writer == 1

Reader == 2

\* the test's iterations
WriterN == 3

\* hashmap.Clear(), then the two threads start
InitRW ==
    /\ m_Buckets = ClearT(Table(EmptyBuckets(1), 0)).b
    /\ m_Size = ClearT(Table(EmptyBuckets(1), 0)).s
    /\ ub = FALSE
    /\ last = NoCall
    /\ prev = Summary(NoCall)
    /\ nOps = 0
    /\ InitCount
    /\ InitThreads
    /\ prog = [NoProg EXCEPT !.phase = "outer"]

\* writer: for (i = 0; i < iterations; ++i) hashmap.Add(i, std::to_string(i))
WriterCall ==
    /\ prog.w < WriterN
    /\ Enter(Writer, "Add", prog.w, Str(prog.w))
    /\ prog' = [prog EXCEPT !.w = @ + 1]

\* reader: the calls of size() in the loop conditions, and Get(i)
ReaderCall ==
    /\ \/ prog.phase \in {"outer", "inner", "last"} /\ Enter(Reader, "size", NoKey, NoValue)
       \/ prog.phase = "get" /\ Enter(Reader, "Get", prog.i, NoValue)
    /\ UNCHANGED prog

\* Get(i) returned std::nullopt: .value() throws std::bad_optional_access
ReaderExit ==
    /\ Exit(Reader)
    /\ prog' = IF frame[Reader].op = "Get" /\ ~frame[Reader].ok
               THEN [prog EXCEPT !.phase = "failed"]
               ELSE prog

\* the reader compares the size it read with last_size or with i
ReaderDerefSize ==
    /\ DerefSize(Reader)
    /\ prog' =
          CASE prog.phase = "outer" ->
                  IF m_Size > prog.last_size
                  THEN [prog EXCEPT !.phase = "inner", !.i = prog.last_size]
                  ELSE prog
            [] prog.phase = "inner" ->
                  IF prog.i < m_Size
                  THEN [prog EXCEPT !.phase = "get"]
                  ELSE [prog EXCEPT !.phase = "last"]
            [] prog.phase = "last" ->
                  [prog EXCEPT !.last_size = m_Size,
                               !.phase = IF m_Size < WriterN THEN "outer" ELSE "done"]

\* assert(hashmap.Get(i).value() == std::to_string(i)); ++i
ReaderDerefValue ==
    /\ DerefValue(Reader)
    /\ prog' = IF pc'[Reader] # "idle" THEN prog
               ELSE IF obs'[Reader].value = Str(prog.i)
                    THEN [prog EXCEPT !.phase = "inner", !.i = prog.i + 1]
                    ELSE [prog EXCEPT !.phase = "failed"]

NextRW ==
    \/ WriterCall /\ UNCHANGED nOps
    \/ ReaderCall /\ UNCHANGED nOps
    \/ \E t \in Threads : BodyRead(t) /\ UNCHANGED <<nOps, prog>>
    \/ \E t \in Threads : BodyGrow(t) /\ UNCHANGED <<nOps, prog>>
    \/ \E t \in Threads : ResizeStep(t) /\ UNCHANGED <<nOps, prog>>
    \/ \E t \in Threads : Insert(t) /\ UNCHANGED <<nOps, prog>>
    \/ Exit(Writer) /\ UNCHANGED <<nOps, prog>>
    \/ ReaderExit /\ UNCHANGED nOps
    \/ ReaderDerefSize /\ UNCHANGED nOps
    \/ ReaderDerefValue /\ UNCHANGED nOps

SpecRW == InitRW /\ [][NextRW]_vars

\* the steps of the writer thread and of the reader thread
WriterNext ==
    \/ WriterCall /\ UNCHANGED nOps
    \/ BodyGrow(Writer) /\ UNCHANGED <<nOps, prog>>
    \/ ResizeStep(Writer) /\ UNCHANGED <<nOps, prog>>
    \/ Insert(Writer) /\ UNCHANGED <<nOps, prog>>
    \/ Exit(Writer) /\ UNCHANGED <<nOps, prog>>

ReaderNext ==
    \/ ReaderCall /\ UNCHANGED nOps
    \/ BodyRead(Reader) /\ UNCHANGED <<nOps, prog>>
    \/ ReaderExit /\ UNCHANGED nOps
    \/ ReaderDerefSize /\ UNCHANGED nOps
    \/ ReaderDerefValue /\ UNCHANGED nOps

\* both threads are scheduled again and again, and a thread that finds the
\* lock free again and again gets it
SpecRWFair ==
    /\ InitRW
    /\ [][NextRW]_vars
    /\ SF_vars(WriterNext)
    /\ SF_vars(ReaderNext)

\* writer.join() and reader.join() have returned
RWDone ==
    /\ prog.w = WriterN
    /\ prog.phase = "done"
    /\ \A t \in Threads : pc[t] = "idle"
    /\ s_Lock.owner = NoThread

\* ------------------------- SpecGrind: the threads of the test "The grind"

\* the test's iterations
GrindM == 2

\* LouiEriksson::Hashmap<int, std::string> hashmap; prog[t] counts the calls
\* thread t has made
InitGrind ==
    /\ m_Buckets = EmptyBuckets(1)
    /\ m_Size = 0
    /\ ub = FALSE
    /\ last = NoCall
    /\ prev = Summary(NoCall)
    /\ nOps = 0
    /\ InitCount
    /\ InitThreads
    /\ prog = [t \in Threads |-> 0]

\* for j: Remove(j); Add(j, to_string(j)); Assign(j, to_string(j)); Get(j)
GrindCall(t) ==
    /\ prog[t] < 4 * GrindM
    /\ LET j == prog[t] \div 4
       IN  CASE prog[t] % 4 = 0 -> Enter(t, "Remove", j, NoValue)
             [] prog[t] % 4 = 1 -> Enter(t, "Add", j, Str(j))
             [] prog[t] % 4 = 2 -> Enter(t, "Assign", j, Str(j))
             [] prog[t] % 4 = 3 -> Enter(t, "Get", j, NoValue)
    /\ prog' = [prog EXCEPT ![t] = @ + 1]

NextGrind ==
    \/ \E t \in Threads : GrindCall(t) /\ UNCHANGED nOps
    \/ \E t \in Threads : BodyRead(t) /\ UNCHANGED <<nOps, prog>>
    \/ \E t \in Threads : BodyRemove(t) /\ UNCHANGED <<nOps, prog>>
    \/ \E t \in Threads : BodyGrow(t) /\ UNCHANGED <<nOps, prog>>
    \/ \E t \in Threads : ResizeStep(t) /\ UNCHANGED <<nOps, prog>>
    \/ \E t \in Threads : Insert(t) /\ UNCHANGED <<nOps, prog>>
    \/ \E t \in Threads : Exit(t) /\ UNCHANGED <<nOps, prog>>
    \/ \E t \in Threads : DerefValue(t) /\ UNCHANGED <<nOps, prog>>

SpecGrind == InitGrind /\ [][NextGrind]_vars

\* every thread has been joined
GrindDone == \A t \in Threads : prog[t] = 4 * GrindM /\ pc[t] = "idle"

\* the table holds key k exactly once
StoredOnce(k) ==
    Cardinality({n \in 1..Len(Flatten(m_Buckets)) : Flatten(m_Buckets)[n].first = k}) = 1

\* ------------------------------------------------------------ the claims

PreT == Table(last.preB, last.preS)

\* an entry with the key's hash lies in the bucket the key is addressed to
Addressed(t, k) ==
    /\ Len(t.b) # 0
    /\ \E j \in 1..Len(t.b[BucketIndex(k, t.b) + 1]) :
          GetHashcode(t.b[BucketIndex(k, t.b) + 1][j].first) = GetHashcode(k)

\* the call found the table full and resized it first
Full(t) == t.s >= Len(t.b)

\* C1: after any sequence of Add and Remove calls on a fresh table, size() is
\* the number of Adds that returned true minus the number of Removes that
\* returned true, never negative; the churn loop ends with size() = N.
C1_SizeIsAddsMinusRemoves ==
    /\ adds - removes >= 0
    /\ m_Size = adds - removes
    /\ (churn = 2 * ChurnN => m_Size = ChurnN)

C1_Witness == churn = 2 * ChurnN /\ m_Size = ChurnN /\ adds = ChurnN

\* C2: after Add(K, v1) returned true, an immediately following Add(K, v2)
\* returns false, leaves size() unchanged, and Get(K) still yields v1.
C2_AddNeverOverwrites ==
    (last.op = "Add" /\ prev.op = "Add" /\ prev.ok)
        => /\ ~last.ok
           /\ m_Size = last.preS
           /\ GetT(Tbl, last.key) = prev.val

\* C3: Add(K, v) of a key absent from the table returns true, K is then
\* contained with value v, and every other key present before the call is
\* still present with its previous value.
C3_AddInsertsAndKeepsOthers ==
    (last.op = "Add" /\ ~Addressed(PreT, last.key))
        => /\ last.ok
           /\ ContainsKeyT(Tbl, last.key)
           /\ GetT(Tbl, last.key) = last.val
           /\ \A j \in Tk \ {last.key} :
                 Addressed(PreT, j) => GetT(Tbl, j) = GetT(PreT, j)

\* C4: after Assign(K, v) Get(K) yields v; size() grew by one if K was absent
\* and is unchanged if K was present; a second Assign(K, v) right afterwards
\* leaves size() unchanged and Get(K) = v.
C4_AssignIsIdempotentUpsert ==
    last.op = "Assign"
        => /\ GetT(Tbl, last.key) = last.val
           /\ m_Size = last.preS + (IF Addressed(PreT, last.key) THEN 0 ELSE 1)
           /\ (prev.op = "Assign" /\ prev.val = last.val) => m_Size = last.preS

\* C5: if Remove(K) returns true then size() has decreased by exactly one and
\* the capacity is unchanged; a ContainsKey(K) made immediately afterwards
\* returns false and a further Remove(K) returns false.
C5_RemovalCompleteness ==
    /\ (last.op = "Remove" /\ last.ok)
          => /\ m_Size = last.preS - 1
             /\ Len(m_Buckets) = Len(last.preB)
    /\ (prev.op = "Remove" /\ prev.ok /\ last.op \in {"ContainsKey", "Remove"})
          => ~last.ok

\* C6: when an Add or Assign finds count >= capacity and resizes, every entry
\* stored before the call is retrievable with the same value afterwards, and
\* size() changes only by the insertion that triggered the resize.
C6_ResizePreservesEntries ==
    (last.op \in {"Add", "Assign"} /\ Full(PreT))
        => /\ \A n \in 1..Len(Flatten(last.preB)) :
                 LET e == Flatten(last.preB)[n]
                 IN  (last.op = "Assign" /\ e.first = last.key)
                        \/ GetT(Tbl, e.first) = e.second
           /\ m_Size = last.preS
                 + (IF \E n \in 1..Len(Flatten(last.preB)) :
                          Flatten(last.preB)[n].first = last.key
                    THEN 0 ELSE 1)

\* a thread is executing inside the body of an operation
Inside(t) == pc[t] \in {"body", "resize", "insert", "exit", "unwind"}

\* the call of thread t has run its body and is about to leave
Leaving(t, ops) == pc[t] \in {"exit", "unwind"} /\ frame[t].op \in ops

C8_MutualExclusion ==
    /\ \A t, u \in Threads : (Inside(t) /\ Inside(u)) => t = u
    /\ \A t \in Threads : Inside(t) <=> s_Lock.owner = t
    /\ \A t \in Threads : pc[t] = "resize" => \A u \in Threads \ {t} : ~Inside(u)

\* one thread is relocating the buckets while another, which has called
\* before, stays outside
C8_Witness ==
    \E t, u \in Threads :
        /\ t # u
        /\ pc[t] = "resize"
        /\ s_Lock.owner = t
        /\ ret[u].op # "none"
        /\ ~Inside(u)

\* C9: the value a caller reads through the reference returned by size()
\* while another thread executes a resizing Add or Assign is the count before
\* that operation or the count after it, never an intermediate one.
C9_SizeNeverIntermediate ==
    \A t \in Threads :
        obs[t].kind = "size" => obs[t].value \in {obs[t].lo, obs[t].hi}

\* C10: every read the reader makes through the reference returned by Get(i),
\* for i below a size it observed, finds key i present and yields str(i), even
\* when the writer relocates the table between Get returning and the read.
C10_ReaderSeesStr ==
    /\ ~ub
    /\ prog.phase # "failed"
    /\ obs[Reader].kind = "value" => obs[Reader].value = Str(obs[Reader].key)

\* C11: under fair scheduling of the writer (Add(0..N-1)) and the reader
\* (looping until it has observed size() >= N) no thread blocks forever, both
\* threads eventually terminate, and the final size() equals N.
C11_BothTerminate == <>(RWDone /\ m_Size = WriterN)

\* C12: with the threads of the grind running Remove(j); Add(j, str(j));
\* Assign(j, str(j)); Get(j) for j = 0..M-1 concurrently, every value a Get(j)
\* reports is str(j), and when all threads have finished size() = M and every
\* key 0..M-1 is present exactly once.
C12_GrindValuesAndFinalSize ==
    /\ ~ub
    /\ \A t \in Threads : obs[t].kind = "value" => obs[t].value = Str(obs[t].key)
    /\ GrindDone => /\ m_Size = GrindM
                    /\ \A k \in 0..(GrindM - 1) : StoredOnce(k) /\ ContainsKeyT(Tbl, k)

\* C13: after every completed public operation, in any sequence of
\* constructor, Add, Assign, Remove, Reserve, Trim and Clear calls, the
\* maintained count size() equals the sum of the lengths of all buckets.
C13_CountIsSumOfBuckets == m_Size = Len(Flatten(m_Buckets))

\* C14: the capacity (number of buckets) is at least 1 in every state
\* observable between operations, after any sequence of Add, Assign, Remove,
\* Reserve, Trim and Clear on a table constructed with capacity >= 1.
C14_CapacityAtLeastOne == Len(m_Buckets) >= 1

\* C15: in every state observable between operations every stored entry with
\* key K lies in the bucket at index hash(K) mod capacity, and no bucket holds
\* two entries with the same hash.
C15_AddressingInvariant ==
    \A i \in 1..Len(m_Buckets) :
        \A j \in 1..Len(m_Buckets[i]) :
            /\ BucketIndex(m_Buckets[i][j].first, m_Buckets) + 1 = i
            /\ \A n \in 1..Len(m_Buckets[i]) :
                  GetHashcode(m_Buckets[i][n].first) = GetHashcode(m_Buckets[i][j].first)
                      => n = j

\* C16: across Add, Assign, Remove, Reserve, Get and ContainsKey the capacity
\* after the operation is never smaller than the capacity before it.
C16_GrowthIsMonotonic ==
    last.op \in {"Add", "Assign", "Remove", "Reserve", "Get", "ContainsKey"}
        => Len(m_Buckets) >= Len(last.preB)

\* C17: after Clear() on any table state size() = 0, empty() is true, no key
\* is retrievable, and the table is reduced to a single empty bucket.
C17_ClearLeavesOneEmptyBucket ==
    last.op = "Clear"
        => /\ m_Size = 0
           /\ \A k \in Tk : GetT(Tbl, k) = NoValue
           /\ m_Buckets = <<(<<>>)>>

\* C18: Trim() does not affect count or reachability: size() is the same
\* before and after, and for every key K ContainsKey(K) and Get(K) give the
\* same results after Trim() as before it.
C18_TrimKeepsCountAndReachability ==
    last.op = "Trim"
        => /\ m_Size = last.preS
           /\ \A k \in Tk :
                 /\ Addressed(Tbl, k) <=> Addressed(PreT, k)
                 /\ GetT(Tbl, k) = GetT(PreT, k)

\* the number of buckets up to and including the last occupied one
Occupied(b) ==
    IF \E i \in 1..Len(b) : b[i] # <<>>
    THEN CHOOSE i \in 1..Len(b) : b[i] # <<>> /\ \A n \in (i + 1)..Len(b) : b[n] = <<>>
    ELSE 0

\* C19: after Trim() the capacity equals max(1, highest occupied bucket
\* index + 1): all trailing empty buckets are gone, and no bucket at or below
\* the highest occupied index was removed or altered.
C19_TrimRemovesTrailingEmptyBuckets ==
    last.op = "Trim"
        => /\ Len(m_Buckets) = (IF Occupied(last.preB) > 1 THEN Occupied(last.preB) ELSE 1)
           /\ \A i \in 1..Occupied(last.preB) :
                 i <= Len(m_Buckets) /\ m_Buckets[i] = last.preB[i]

\* C20: if re-inserting an entry faults partway through Resize, then after
\* Resize returns the table is identical to its pre-resize snapshot: same
\* capacity, same bucket contents (keys and values) and the same count.
C20_ResizeRollsBack ==
    (last.op = "Reserve" /\ last.out # NoValue)
        => /\ m_Buckets = last.preB
           /\ m_Size = last.preS

\* the last call was one in which an internal fault occurred
Faulted(ops) == last.op \in ops /\ last.out # NoValue

\* C21: if an internal fault occurs inside Add, Assign, Remove or Get, then
\* after the call returns the buckets, the capacity and the count are exactly
\* what they were before the call.
C21_FaultHasNoEffect ==
    Faulted({"Add", "Assign", "Remove", "Get"})
        => /\ m_Buckets = last.preB
           /\ m_Size = last.preS

\* C22: when an internal fault occurs during the safe form of Add(K, v) the
\* call does not raise and reports failure: it returns false and K has not
\* been inserted.
C22_SafeAddReportsFailure ==
    Faulted({"Add"})
        => /\ ~last.ok
           /\ ~Addressed(PreT, last.key) => ~Addressed(Tbl, last.key)

IsDiag == "exception" \in DOMAIN last

Strip(o) == [o EXCEPT !.exception = NoValue]

\* C23: the form of ContainsKey, Add, Assign, Remove and Get that takes an
\* exception_ptr and the form that does not have the same outcomes from the
\* same table, arguments and fault: the same result and the same table
\* afterwards; the only difference is what the exception_ptr holds.
C23_FormsAgree ==
    IsDiag =>
        LET D == DiagOutcomes(last.op, PreT, last.key, last.val, last.at, last.exception0)
            S == SafeOutcomes(last.op, PreT, last.key, last.val, last.at)
        IN  /\ {Strip(o) : o \in D} = S
            /\ \E o \in S :
                  /\ ~o.trap
                  /\ o.t = Tbl
                  /\ o.ok = last.ok
                  /\ o.out = last.out

C23_Witness ==
    /\ IsDiag
    /\ last.op = "Add"
    /\ last.at = EntryFault
    /\ last.exception = EntryFault
    /\ last.exception0 = NoValue
    /\ m_Size = last.preS + 1
    /\ last.preS >= 1

\* C24: a call of the exception_ptr form that merely misses (Get, ContainsKey
\* or Remove of a key that is not there, Add of a key that is there) returns
\* false or empty and leaves the exception_ptr as the caller passed it.
C24_MissLeavesExceptionUntouched ==
    (/\ IsDiag
     /\ last.at = NoFault
     /\ \/ last.op \in {"Get", "ContainsKey", "Remove"} /\ ~Addressed(PreT, last.key)
        \/ last.op = "Add" /\ Addressed(GrowIfFull(PreT), last.key))
    => /\ ~last.ok
       /\ last.out = NoValue
       /\ last.exception = last.exception0
       /\ ~ub

\* the value paired with k where k first occurs in the list
RECURSIVE FirstValue(_, _)
FirstValue(items, k) ==
    IF items = <<>> THEN NoValue
    ELSE IF Head(items).first = k THEN Head(items).second
    ELSE FirstValue(Tail(items), k)

DistinctKeys(items) == {items[i].first : i \in 1..Len(items)}

Occurrences(seq, x) == Cardinality({i \in 1..Len(seq) : seq[i] = x})

\* C25: a table constructed from a list of pairs holds each distinct key of
\* the list once, size() is the number of distinct keys, and Get(K) yields the
\* value K was paired with where it FIRST occurs in the list.
C25_FirstOccurrenceWins ==
    last.op = "Hashmap" =>
        /\ m_Size = Cardinality(DistinctKeys(last.items))
        /\ \A k \in Tk :
              Occurrences(KeysT(Tbl), k) = (IF k \in DistinctKeys(last.items) THEN 1 ELSE 0)
        /\ \A k \in DistinctKeys(last.items) : GetT(Tbl, k) = FirstValue(last.items, k)
        /\ (obs[1].kind = "Get" /\ obs[1].key \in DistinctKeys(last.items))
              => obs[1].value = FirstValue(last.items, obs[1].key)
        /\ obs[1].kind = "size" => obs[1].value = Cardinality(DistinctKeys(last.items))

Snapped == obs[1].kind \in {"Keys", "Values", "GetAll"}

\* the table a snapshot was taken from
SnapT == Table(obs[1].b, obs[1].hi)

\* C26: the sequence returned by Keys(), Values() or GetAll() lists the
\* entries in bucket-then-chain order, its length is size(), every key that
\* Get retrieves appears in it exactly once, Keys()[i] and Values()[i] are the
\* key and the value of GetAll()[i], and it stays as returned whatever is
\* later done to the table.
C26_SnapshotsListEveryKeyOnce ==
    Snapped =>
        /\ Len(obs[1].value) = SnapT.s
        /\ obs[1].value = (CASE obs[1].kind = "Keys"   -> Firsts(Flatten(SnapT.b))
                             [] obs[1].kind = "Values" -> Seconds(Flatten(SnapT.b))
                             [] obs[1].kind = "GetAll" -> Flatten(SnapT.b))
        /\ KeysT(SnapT) = Firsts(GetAllT(SnapT))
        /\ ValuesT(SnapT) = Seconds(GetAllT(SnapT))
        /\ \A k \in Tk : GetT(SnapT, k) # NoValue => Occurrences(KeysT(SnapT), k) = 1

\* C27: walking from begin() until the iterator equals end() ends after
\* exactly size() increments and dereferences exactly the entries of GetAll()
\* in order, each once, on every table (an empty one and one whose first
\* bucket is empty included); on a table without entries begin() == end().
C27_IterationYieldsGetAll ==
    Iterating =>
        LET all  == GetAllT(Tbl)
            seen == obs[1].value
            done == IterEq(m_Buckets, ref[1], EndT(m_Buckets))
        IN  /\ ref[1].valid
            /\ obs[1].hi = Len(seen)
            /\ Len(seen) <= Len(all)
            /\ seen = SubSeq(all, 1, Len(seen))
            /\ done <=> Len(seen) = Len(all)
            /\ done => obs[1].hi = m_Size
            /\ all = <<>> => done

\* C28: after Reserve(n) the capacity is at least n, and size() and the value
\* Get retrieves for every key are what they were before the call.
C28_ReserveReachesCapacity ==
    last.op = "Reserve"
        => /\ Len(m_Buckets) >= last.val
           /\ m_Size = last.preS
           /\ \A k \in Tk : GetT(Tbl, k) = GetT(PreT, k)

\* C29: an Add or Assign called with count >= capacity leaves the capacity at
\* exactly max(1, 2 x the capacity before), also when the Add fails on a
\* duplicate; called with count < capacity it leaves the capacity unchanged.
C29_GrowthIsExactDoubling ==
    last.op \in {"Add", "Assign"}
        => Len(m_Buckets) = (IF Full(PreT)
                             THEN (IF Len(last.preB) = 0 THEN 1 ELSE 2 * Len(last.preB))
                             ELSE Len(last.preB))

\* C30: directly after Clear(), for any key K, ContainsKey(K) returns false,
\* Remove(K) returns false, Get(K) is empty and Trim() changes nothing; each
\* call completes normally and leaves the table empty.
C30_UsableAfterClear ==
    /\ last.op = "Clear" => ~ub
    /\ (last.op \in {"ContainsKey", "Remove", "Get", "Trim"} /\ last.preB = <<>>)
          => /\ ~ub
             /\ last.op = "Trim" \/ ~last.ok
             /\ m_Size = 0
             /\ m_Buckets = last.preB

\* C31: with a collision-free hash, on a table constructed with at least one
\* bucket, after any sequence of Add, Assign, Remove and Reserve the table
\* agrees with a dictionary driven by the same calls: each Add and Remove
\* returns what the dictionary returns, size() is the number of its entries,
\* and Get and ContainsKey give its lookup for every key.
C31_RefinesDictionary ==
    /\ ~ub
    /\ last.op \in {"Add", "Remove"} => last.ok = prog.ret
    /\ m_Size = Cardinality({k \in Tk : prog.dict[k] # NoValue})
    /\ \A k \in Tk :
          /\ GetT(Tbl, k) = prog.dict[k]
          /\ ContainsKeyT(Tbl, k) = (prog.dict[k] # NoValue)

C31_Witness ==
    /\ last.op = "Add"
    /\ ~last.ok
    /\ Full(PreT)
    /\ Len(m_Buckets) > Len(last.preB)
    /\ prog.dict[last.key] # last.val
    /\ m_Size = 2
    /\ \E k \in Tk : k # last.key /\ prog.dict[k] # NoValue

\* C32: the lock belongs to the type, not to the table: no two threads are
\* ever inside operations at the same time, also when the operations are on
\* two different tables, so while a thread is inside an operation (a Resize,
\* say) on one table no other thread is inside one on any table.
C32_LockSharedAcrossTables ==
    \A t, u \in Threads :
        (t # u /\ Inside(t)) =>
            /\ ~Inside(u)
            /\ \A x \in Instances : s_Lock[LockOf(x)].owner = t

C32_Witness ==
    \E t, u \in Threads :
        /\ t # u
        /\ pc[t] = "insert"
        /\ Len(m_Buckets[frame[t].table]) > Len(frame[t].preB)
        /\ pc[u] = "idle"
        /\ ret[u].op = "Add"
        /\ frame[u].table # frame[t].table
        /\ m_Size[frame[u].table] >= 1

\* C33: in src/Hashmap.h, after any sequence of Add, Assign, Remove and Clear,
\* size() is the number of entries stored in the buckets; Assign on a key
\* already present leaves size() unchanged and Clear() leaves size() = 0.
C33_LegacyCountIsSumOfBuckets ==
    /\ m_Size = Len(Flatten(m_Buckets))
    /\ (last.op = "Assign" /\ LegacyGetT(PreT, last.key) # NoValue) => m_Size = last.preS
    /\ last.op = "Clear" => m_Size = 0

\* C34: in src/Hashmap.h, a Resize triggered by Add or Assign (size() >= the
\* number of buckets) leaves strictly more buckets than before, keeps every
\* entry stored before retrievable with its value, and does not itself change
\* size(): the count afterwards is the count before plus the call's own
\* increment.
C34_LegacyResizeGrowsAndKeeps ==
    (last.op \in {"Add", "Assign"} /\ Full(PreT))
        => /\ Len(m_Buckets) > Len(last.preB)
           /\ \A n \in 1..Len(Flatten(last.preB)) :
                 LET e == Flatten(last.preB)[n]
                 IN  (last.op = "Assign" /\ e.first = last.key)
                        \/ LegacyGetT(Tbl, e.first) = e.second
           /\ m_Size = last.preS + (IF last.op = "Assign" \/ last.ok THEN 1 ELSE 0)

====
